---- MODULE Spec2Model ----
(***************************************************************************)
(* A model of mongo2sql's MongoToSQLTranslator (src/src/index.ts).         *)
(*                                                                         *)
(* A JavaScript string is a sequence of one-character strings, so that     *)
(* indexOf, substring, the key-rewriting regular expression, replace,      *)
(* split and JSON.parse are computed character by character as the code    *)
(* computes them.  A JavaScript value is a record [t, v] whose tag t is    *)
(* one of "num", "inf", "nan", "str", "bool", "null", "undef", "arr",      *)
(* "obj"; an object's v is the sequence of its properties [k, v] in        *)
(* property enumeration order.                                             *)
(*                                                                         *)
(* Not modelled: backslash escapes inside JSON strings, and JSON numbers   *)
(* with a fraction or an exponent.  No input of the model contains a       *)
(* backslash, or a digit followed by ".", "e" or "E" outside a string.     *)
(***************************************************************************)
EXTENDS Integers, Sequences, FiniteSets, TLC

VARIABLES input, lowered, outcome

vars == <<input, lowered, outcome>>

----------------------------------------------------------------------------
(* Characters *)

LowerCase == <<"a","b","c","d","e","f","g","h","i","j","k","l","m",
               "n","o","p","q","r","s","t","u","v","w","x","y","z">>

UpperCase == <<"A","B","C","D","E","F","G","H","I","J","K","L","M",
               "N","O","P","Q","R","S","T","U","V","W","X","Y","Z">>

DigitSeq == <<"0","1","2","3","4","5","6","7","8","9">>

Range(s) == {s[i] : i \in DOMAIN s}

Digits == Range(DigitSeq)

\* the regular-expression class \w
WordChars == Range(LowerCase) \cup Range(UpperCase) \cup Digits \cup {"_"}

\* the white space JSON.parse skips, and Number() trims
WhiteSpace == {" ", "\t", "\n", "\r"}

DigitVal(c) == (CHOOSE i \in DOMAIN DigitSeq : DigitSeq[i] = c) - 1

\* the character at 1-based position i, "" past either end
At(s, i) == IF i >= 1 /\ i <= Len(s) THEN s[i] ELSE ""

Min(a, b) == IF a < b THEN a ELSE b

Max(a, b) == IF a < b THEN b ELSE a

\* how many characters of class cls stand in s from position i on
RECURSIVE Run(_, _, _)
Run(s, i, cls) == IF At(s, i) \in cls THEN 1 + Run(s, i + 1, cls) ELSE 0

\* the text as one TLA+ string (only used to state results readably)
RECURSIVE Str(_)
Str(s) ==
    IF s = <<>> THEN ""
    ELSE IF Len(s) = 1 THEN s[1]
    ELSE Str(SubSeq(s, 1, Len(s) \div 2)) \o Str(SubSeq(s, Len(s) \div 2 + 1, Len(s)))

----------------------------------------------------------------------------
(* String.prototype methods *)

\* s.indexOf(pat, from): 0-based, -1 when pat does not occur
indexOfFrom(s, pat, from) ==
    LET found == {i \in from..(Len(s) - Len(pat)) :
                     SubSeq(s, i + 1, i + Len(pat)) = pat}
    IN  IF found = {} THEN -1
        ELSE CHOOSE i \in found : \A j \in found : i <= j

indexOf(s, pat) == indexOfFrom(s, pat, 0)

\* s.substring(start, end): both clamped to 0..length, swapped when start > end
substring(s, start, end) ==
    LET a == Min(Max(start, 0), Len(s))
        b == Min(Max(end, 0), Len(s))
    IN  SubSeq(s, Min(a, b) + 1, Max(a, b))

\* s.replaceAll(c, d) for one-character c and d
replaceAll(s, c, d) == [i \in DOMAIN s |-> IF s[i] = c THEN d ELSE s[i]]

\* s.replace(pat, rep) with a string pattern: the first occurrence only
replace(s, pat, rep) ==
    LET i == indexOf(s, pat)
    IN  IF i = -1 THEN s
        ELSE SubSeq(s, 1, i) \o rep \o SubSeq(s, i + Len(pat) + 1, Len(s))

\* s.split(sep), sep not empty
RECURSIVE split(_, _)
split(s, sep) ==
    LET i == indexOf(s, sep)
    IN  IF i = -1 THEN <<s>>
        ELSE <<SubSeq(s, 1, i)>> \o split(SubSeq(s, i + Len(sep) + 1, Len(s)), sep)

\* parts.join(sep)
RECURSIVE join(_, _)
join(parts, sep) ==
    IF parts = <<>> THEN <<>>
    ELSE IF Len(parts) = 1 THEN parts[1]
    ELSE parts[1] \o sep \o join(Tail(parts), sep)

toUpperCase(s) ==
    [i \in DOMAIN s |->
        IF s[i] \in Range(LowerCase)
        THEN UpperCase[CHOOSE j \in DOMAIN LowerCase : LowerCase[j] = s[i]]
        ELSE s[i]]

startsWith(s, pat) == Len(s) >= Len(pat) /\ SubSeq(s, 1, Len(pat)) = pat

----------------------------------------------------------------------------
(* JavaScript values *)

Num(n) == [t |-> "num", v |-> n]

Infinity == [t |-> "inf", v |-> 0]

NaN == [t |-> "nan", v |-> 0]

StrV(s) == [t |-> "str", v |-> s]

Bool(b) == [t |-> "bool", v |-> b]

Null == [t |-> "null", v |-> 0]

Undefined == [t |-> "undef", v |-> 0]

Arr(es) == [t |-> "arr", v |-> es]

Obj(ps) == [t |-> "obj", v |-> ps]

Prop(k, v) == [k |-> k, v |-> v]

\* typeof x === "object"
typeofObject(x) == x.t \in {"obj", "arr", "null"}

\* the decimal digits of a natural number
RECURSIVE NatChars(_)
NatChars(n) ==
    IF n < 10 THEN <<DigitSeq[n + 1]>>
    ELSE NatChars(n \div 10) \o <<DigitSeq[(n % 10) + 1]>>

\* Number.prototype.toString of an integer
IntChars(n) == IF n < 0 THEN <<"-">> \o NatChars(-n) ELSE NatChars(n)

\* an array index or an integer-like property name: "0", or digits without
\* a leading zero, at most 2^32 - 2
MaxArrayIndex == <<"4","2","9","4","9","6","7","2","9","4">>

RECURSIVE DigitsLess(_, _)
DigitsLess(a, b) ==
    IF a = <<>> \/ b = <<>> THEN FALSE
    ELSE IF Head(a) # Head(b) THEN DigitVal(Head(a)) < DigitVal(Head(b))
    ELSE DigitsLess(Tail(a), Tail(b))

\* a < b for canonical digit strings
IndexLess(a, b) == Len(a) < Len(b) \/ (Len(a) = Len(b) /\ DigitsLess(a, b))

IsArrayIndex(k) ==
    /\ Len(k) >= 1
    /\ \A i \in DOMAIN k : k[i] \in Digits
    /\ (k[1] = "0" => Len(k) = 1)
    /\ ~IndexLess(MaxArrayIndex, k)

HasKey(ps, k) == \E i \in DOMAIN ps : ps[i].k = k

\* obj[k] = v on an ordinary object (CreateDataProperty): an existing
\* property keeps its place; a new integer-like key goes among the
\* integer-like keys in ascending order, which come first; any other new key
\* goes last
ObjSet(ps, k, v) ==
    IF HasKey(ps, k)
    THEN [i \in DOMAIN ps |-> IF ps[i].k = k THEN Prop(k, v) ELSE ps[i]]
    ELSE IF IsArrayIndex(k)
    THEN LET before == SelectSeq(ps, LAMBDA p : IsArrayIndex(p.k) /\ IndexLess(p.k, k))
             after == SelectSeq(ps, LAMBDA p : ~(IsArrayIndex(p.k) /\ IndexLess(p.k, k)))
         IN  before \o <<Prop(k, v)>> \o after
    ELSE Append(ps, Prop(k, v))

\* the keys a for-in loop, or Object.keys, visits
ForInKeys(x) ==
    CASE x.t = "obj" -> [i \in DOMAIN x.v |-> x.v[i].k]
      [] x.t \in {"arr", "str"} -> [i \in DOMAIN x.v |-> NatChars(i - 1)]
      [] OTHER -> <<>>

\* x[key] for a key ForInKeys(x) gave
Get(x, key) ==
    CASE x.t = "obj" -> x.v[CHOOSE i \in DOMAIN x.v : x.v[i].k = key].v
      [] x.t = "arr" -> x.v[CHOOSE i \in DOMAIN x.v : NatChars(i - 1) = key]
      [] x.t = "str" -> StrV(<<x.v[CHOOSE i \in DOMAIN x.v : NatChars(i - 1) = key]>>)

\* String(x), as a template literal `${x}` computes it
RECURSIVE JsToString(_)
JsToString(x) ==
    CASE x.t = "num" -> IntChars(x.v)
      [] x.t = "inf" -> <<"I","n","f","i","n","i","t","y">>
      [] x.t = "nan" -> <<"N","a","N">>
      [] x.t = "str" -> x.v
      [] x.t = "bool" -> IF x.v THEN <<"t","r","u","e">> ELSE <<"f","a","l","s","e">>
      [] x.t = "null" -> <<"n","u","l","l">>
      [] x.t = "undef" -> <<"u","n","d","e","f","i","n","e","d">>
      [] x.t = "arr" ->
            join([i \in DOMAIN x.v |->
                    IF x.v[i].t \in {"null", "undef"} THEN <<>>
                    ELSE JsToString(x.v[i])], <<",">>)
      [] x.t = "obj" ->
            <<"[","o","b","j","e","c","t"," ","O","b","j","e","c","t","]">>

\* s without leading and trailing white space
RECURSIVE trim(_)
trim(s) ==
    IF s # <<>> /\ Head(s) \in WhiteSpace THEN trim(Tail(s))
    ELSE IF s # <<>> /\ s[Len(s)] \in WhiteSpace THEN trim(SubSeq(s, 1, Len(s) - 1))
    ELSE s

\* s is a StrUnsignedDecimalLiteral: Infinity, or digits with an optional
\* fraction and exponent
IsUnsignedDecimal(s) ==
    LET n1 == Run(s, 1, Digits)
        p == 1 + n1
        hasDot == At(s, p) = "."
        n2 == IF hasDot THEN Run(s, p + 1, Digits) ELSE 0
        q == IF hasDot THEN p + 1 + n2 ELSE p
        hasExp == At(s, q) \in {"e", "E"}
        r == IF At(s, q + 1) \in {"+", "-"} THEN q + 2 ELSE q + 1
        n3 == Run(s, r, Digits)
        end == IF hasExp THEN r + n3 ELSE q
    IN  \/ s = <<"I","n","f","i","n","i","t","y">>
        \/ /\ n1 > 0 \/ n2 > 0
           /\ hasExp => n3 > 0
           /\ end = Len(s) + 1

\* s is a NonDecimalIntegerLiteral: 0x, 0o or 0b and digits of that base
IsNonDecimal(s) ==
    LET hex == Digits \cup {"a","b","c","d","e","f","A","B","C","D","E","F"}
        oct == {"0","1","2","3","4","5","6","7"}
        bin == {"0","1"}
        body(cls) == Len(s) > 2 /\ Run(s, 3, cls) = Len(s) - 2
    IN  /\ At(s, 1) = "0"
        /\ \/ At(s, 2) \in {"x", "X"} /\ body(hex)
           \/ At(s, 2) \in {"o", "O"} /\ body(oct)
           \/ At(s, 2) \in {"b", "B"} /\ body(bin)

\* Number(s) is NaN, for a string s
StringIsNaN(s) ==
    LET w == trim(s)
        u == IF At(w, 1) \in {"+", "-"} THEN Tail(w) ELSE w
    IN  ~(w = <<>> \/ IsUnsignedDecimal(u) \/ IsNonDecimal(w))

\* the global isNaN(x): Number(x) is NaN
isNaN(x) ==
    CASE x.t \in {"num", "inf", "bool", "null"} -> FALSE
      [] x.t \in {"nan", "undef"} -> TRUE
      [] x.t = "str" -> StringIsNaN(x.v)
      [] x.t \in {"arr", "obj"} -> StringIsNaN(JsToString(x))

\* !x
Falsy(x) ==
    \/ x.t \in {"undef", "null", "nan"}
    \/ x.t = "bool" /\ ~x.v
    \/ x.t = "num" /\ x.v = 0
    \/ x.t = "str" /\ x.v = <<>>

----------------------------------------------------------------------------
(* JSON.parse *)

NoParse == [ok |-> FALSE, v |-> Undefined, i |-> 0]

Parsed(v, i) == [ok |-> TRUE, v |-> v, i |-> i]

SkipWS(s, i) == i + Run(s, i, WhiteSpace)

\* a string token whose opening quote is at i: the characters up to the next
\* double quote; a control character inside it is a syntax error
JsonString(s, i) ==
    LET j == indexOfFrom(s, <<"\"">>, i)
        body == SubSeq(s, i + 1, j)
    IN  IF At(s, i) # "\"" \/ j = -1 THEN NoParse
        ELSE IF \E n \in DOMAIN body : body[n] \in {"\t", "\n", "\r"} THEN NoParse
        ELSE Parsed(StrV(body), j + 2)

RECURSIVE DigitsValue(_)
DigitsValue(ds) ==
    IF ds = <<>> THEN 0
    ELSE 10 * DigitsValue(SubSeq(ds, 1, Len(ds) - 1)) + DigitVal(ds[Len(ds)])

\* a number token at i: an optional minus and an integer without leading zero
JsonNumber(s, i) ==
    LET neg == At(s, i) = "-"
        d == IF neg THEN i + 1 ELSE i
        n == IF At(s, d) = "0" THEN 1 ELSE Run(s, d, Digits)
        val == DigitsValue(SubSeq(s, d, d + n - 1))
    IN  IF n = 0 THEN NoParse
        ELSE Parsed(Num(IF neg THEN -val ELSE val), d + n)

JsonLiteral(s, i, word, v) ==
    IF SubSeq(s, i, Min(Len(s), i + Len(word) - 1)) = word
    THEN Parsed(v, i + Len(word))
    ELSE NoParse

RECURSIVE JsonValue(_, _), JsonMembers(_, _, _), JsonElements(_, _, _)

\* a value starting at or after i, white space skipped
JsonValue(s, i) ==
    LET j == SkipWS(s, i)
        c == At(s, j)
    IN  CASE c = "{" ->
                IF At(s, SkipWS(s, j + 1)) = "}"
                THEN Parsed(Obj(<<>>), SkipWS(s, j + 1) + 1)
                ELSE JsonMembers(s, j + 1, <<>>)
          [] c = "[" ->
                IF At(s, SkipWS(s, j + 1)) = "]"
                THEN Parsed(Arr(<<>>), SkipWS(s, j + 1) + 1)
                ELSE JsonElements(s, j + 1, <<>>)
          [] c = "\"" -> JsonString(s, j)
          [] c = "-" \/ c \in Digits -> JsonNumber(s, j)
          [] c = "t" -> JsonLiteral(s, j, <<"t","r","u","e">>, Bool(TRUE))
          [] c = "f" -> JsonLiteral(s, j, <<"f","a","l","s","e">>, Bool(FALSE))
          [] c = "n" -> JsonLiteral(s, j, <<"n","u","l","l">>, Null)
          [] OTHER -> NoParse

\* the members of an object from i on, acc being those read so far
JsonMembers(s, i, acc) ==
    LET key == JsonString(s, SkipWS(s, i))
        colon == SkipWS(s, key.i)
        val == JsonValue(s, colon + 1)
        next == SkipWS(s, val.i)
        props == ObjSet(acc, key.v.v, val.v)
    IN  IF ~key.ok \/ At(s, colon) # ":" THEN NoParse
        ELSE IF ~val.ok THEN NoParse
        ELSE IF At(s, next) = "," THEN JsonMembers(s, next + 1, props)
        ELSE IF At(s, next) = "}" THEN Parsed(Obj(props), next + 1)
        ELSE NoParse

\* the elements of an array from i on, acc being those read so far
JsonElements(s, i, acc) ==
    LET val == JsonValue(s, i)
        next == SkipWS(s, val.i)
    IN  IF ~val.ok THEN NoParse
        ELSE IF At(s, next) = "," THEN JsonElements(s, next + 1, Append(acc, val.v))
        ELSE IF At(s, next) = "]" THEN Parsed(Arr(Append(acc, val.v)), next + 1)
        ELSE NoParse

\* JSON.parse(s): ok = FALSE stands for the SyntaxError it throws
JSONparse(s) ==
    LET r == JsonValue(s, 1)
    IN  IF r.ok /\ SkipWS(s, r.i) = Len(s) + 1
        THEN [ok |-> TRUE, v |-> r.v]
        ELSE [ok |-> FALSE, v |-> Undefined]

----------------------------------------------------------------------------
(* MongoToSQLTranslator *)

OpOr == <<"$","o","r">>

OpAnd == <<"$","a","n","d">>

OpEq == <<"$","e","q">>

OpNe == <<"$","n","e">>

OpGt == <<"$","g","t">>

OpGte == <<"$","g","t","e">>

OpLt == <<"$","l","t">>

OpLte == <<"$","l","t","e">>

OpIn == <<"$","i","n">>

\* a SqlQuery; a connective's value is [t |-> "nodes", v |-> the lowered
\* subqueries], each a sequence of SqlQuery
SqlQuery(field, operator, value) ==
    [field |-> field, operator |-> operator, value |-> value]

Lowered(nodes) == [ok |-> TRUE, nodes |-> nodes]

\* value.map is not a function: the TypeError unwinds translateQuery
LoweringFailed == [ok |-> FALSE, nodes |-> <<>>]

\* the results of the loop's iterations, in order; a throw in one of them is
\* the result of the loop
RECURSIVE Gather(_)
Gather(rs) ==
    IF rs = <<>> THEN Lowered(<<>>)
    ELSE LET rest == Gather(Tail(rs))
         IN  IF Head(rs).ok /\ rest.ok
             THEN Lowered(Head(rs).nodes \o rest.nodes)
             ELSE LoweringFailed

RECURSIVE translateQuery(_)

\* filterKey.startsWith("$")
isOperatorKey(filterKey) == startsWith(filterKey, <<"$">>)

\* one iteration of the loop over the keys of filter = query[key]
translateFilterKey(key, filter, filterKey) ==
    LET value == Get(filter, filterKey)
        subqueries == [i \in DOMAIN value.v |-> translateQuery(value.v[i])]
    IN  IF ~isOperatorKey(filterKey) THEN Lowered(<<>>)
        ELSE IF filterKey \in {OpOr, OpAnd}
        THEN IF value.t # "arr" THEN LoweringFailed
             ELSE IF \E i \in DOMAIN subqueries : ~subqueries[i].ok THEN LoweringFailed
             ELSE Lowered(<<SqlQuery(<<>>, filterKey,
                       [t |-> "nodes",
                        v |-> [i \in DOMAIN subqueries |-> subqueries[i].nodes]])>>)
        ELSE Lowered(<<SqlQuery(key, filterKey, value)>>)

\* the loop over the keys of query taking only the first key of filter, as
\* if a comparison object had one keyword
translateKeyFirstOnly(query, key) ==
    LET filter == Get(query, key)
        filterKeys == ForInKeys(filter)
    IN  IF typeofObject(filter)
        THEN Gather([j \in DOMAIN SubSeq(filterKeys, 1, 1) |->
                        translateFilterKey(key, filter, filterKeys[j])])
        ELSE Lowered(<<SqlQuery(key, OpEq, filter)>>)

\* one iteration of the loop over the keys of query
translateKey(query, key) ==
    LET filter == Get(query, key)
        filterKeys == ForInKeys(filter)
    IN  IF typeofObject(filter)
        THEN Gather([j \in DOMAIN filterKeys |->
                        translateFilterKey(key, filter, filterKeys[j])])
        ELSE Lowered(<<SqlQuery(key, OpEq, filter)>>)

translateQuery(query) ==
    LET keys == ForInKeys(query)
    IN  Gather([i \in DOMAIN keys |-> translateKey(query, keys[i])])

\* the operator map with the entries of $gt and $gte exchanged
getSQLOperatorExchanged(mongoOperator) ==
    CASE mongoOperator = OpLt -> <<"<">>
      [] mongoOperator = OpLte -> <<"<", "=">>
      [] mongoOperator = OpGt -> <<">", "=">>
      [] mongoOperator = OpGte -> <<">">>
      [] mongoOperator = OpNe -> <<"!", "=">>
      [] mongoOperator = OpIn -> <<"I", "N">>
      [] mongoOperator = OpOr -> <<"O", "R">>
      [] mongoOperator = OpAnd -> <<"A", "N", "D">>
      [] mongoOperator = OpEq -> <<"=">>
      [] OTHER -> JsToString(Undefined)

\* operatorMap[mongoOperator]; a key the map lacks gives undefined
getSQLOperator(mongoOperator) ==
    CASE mongoOperator = OpLt -> <<"<">>
      [] mongoOperator = OpLte -> <<"<", "=">>
      [] mongoOperator = OpGt -> <<">">>
      [] mongoOperator = OpGte -> <<">", "=">>
      [] mongoOperator = OpNe -> <<"!", "=">>
      [] mongoOperator = OpIn -> <<"I", "N">>
      [] mongoOperator = OpOr -> <<"O", "R">>
      [] mongoOperator = OpAnd -> <<"A", "N", "D">>
      [] mongoOperator = OpEq -> <<"=">>
      [] OTHER -> JsToString(Undefined)

formatSQLValue(value) ==
    IF value.t = "arr"
    THEN <<"(">>
         \o join([i \in DOMAIN value.v |->
                    <<"'">> \o JsToString(value.v[i]) \o <<"'">>], <<",", " ">>)
         \o <<")">>
    ELSE IF ~isNaN(value) THEN JsToString(value)
    ELSE <<"'">> \o JsToString(value) \o <<"'">>

RECURSIVE buildSQL(_)
buildSQL(query) ==
    join([i \in DOMAIN query |->
            LET q == query[i]
            IN  IF q.operator \in {OpOr, OpAnd}
                THEN <<"(">>
                     \o join([j \in DOMAIN q.value.v |->
                                <<"(">> \o buildSQL(q.value.v[j]) \o <<")">>],
                             <<" ">> \o toUpperCase(q.operator) \o <<" ">>)
                     \o <<")">>
                ELSE q.field \o <<" ">> \o getSQLOperator(q.operator) \o <<" ">>
                     \o formatSQLValue(q.value)],
         <<" ", "A", "N", "D", " ">>)

\* the length of the match of /(\w+:)|(\w+ :)|(\$\w+:)|(\$\w+ :)/ that starts
\* at position i, 0 when there is none
KeyMatchLen(s, i) ==
    LET w == Run(s, i, WordChars)
        d == IF At(s, i) = "$" THEN Run(s, i + 1, WordChars) ELSE 0
    IN  IF w > 0 /\ At(s, i + w) = ":" THEN w + 1
        ELSE IF w > 0 /\ At(s, i + w) = " " /\ At(s, i + w + 1) = ":" THEN w + 2
        ELSE IF d > 0 /\ At(s, i + 1 + d) = ":" THEN d + 2
        ELSE IF d > 0 /\ At(s, i + 1 + d) = " " /\ At(s, i + 2 + d) = ":" THEN d + 3
        ELSE 0

\* the global replace of every match, from position i on, by the match
\* without its last character between double quotes, followed by a colon
RECURSIVE rewriteKeys(_, _)
rewriteKeys(s, i) ==
    LET matches == {j \in i..Len(s) : KeyMatchLen(s, j) > 0}
        m == CHOOSE j \in matches : \A k \in matches : j <= k
        n == KeyMatchLen(s, m)
    IN  IF matches = {} THEN SubSeq(s, i, Len(s))
        ELSE SubSeq(s, i, m - 1) \o <<"\"">> \o SubSeq(s, m, m + n - 2)
             \o <<"\"", ":">> \o rewriteKeys(s, m + n)

FindCall == <<".", "f", "i", "n", "d", "(">>

\* the end of the extracted text: query.length - 2
literalsEnd(query) == Len(query) - 2

\* the text between ".find(" and the last two characters
extractLiterals(query) ==
    substring(query, indexOf(query, FindCall) + 6, literalsEnd(query))

\* the pieces the rewritten text is cut into, the last one given back its "{"
splitLiterals(literals) ==
    LET rewritten == replace(replaceAll(rewriteKeys(literals, 1), "'", "\""),
                             <<",", " ">>, <<",">>)
        parts == split(rewritten, <<",", "{">>)
    IN  IF Len(parts) > 1
        THEN [parts EXCEPT ![Len(parts)] = <<"{">> \o @]
        ELSE parts

\* JSON.parse of the first piece and, when there are more, of the second;
\* ok = FALSE stands for the SyntaxError of either
parseLiterals(arrayOfObjects) ==
    LET operators == JSONparse(arrayOfObjects[1])
        projection == IF Len(arrayOfObjects) > 1
                      THEN JSONparse(arrayOfObjects[2])
                      ELSE [ok |-> TRUE, v |-> Undefined]
    IN  [ok |-> operators.ok /\ projection.ok,
         operators |-> operators.v,
         projection |-> projection.v]

parseMongoQuery(query) == parseLiterals(splitLiterals(extractLiterals(query)))

FindMethod == <<".", "f", "i", "n", "d">>

OnlyFindMessage ==
    "Error: Only the \".find\" method is supported. Please use the \".find\" method for querying."

Returned(sql) == [kind |-> "returned", sql |-> Str(sql), error |-> "", message |-> ""]

Thrown(error, message) == [kind |-> "thrown", sql |-> "", error |-> error, message |-> message]

\* the validation of translate(query: string)
hasFindMethod(query) == indexOf(query, FindMethod) # -1

\* the column list of the SELECT
columns(projection) ==
    IF Falsy(projection) THEN <<"*">>
    ELSE join(ForInKeys(projection), <<",", " ">>)

selectStatement(cols, where) ==
    <<"S","E","L","E","C","T"," ">> \o cols
    \o <<" ","F","R","O","M"," ","u","s","e","r"," ","W","H","E","R","E"," ">>
    \o where \o <<";">>

\* the statement built from the lowered query, or the TypeError of the
\* lowering; lowered is the predicate sequence the query was lowered to
buildStatement(projection, translatedQuery) ==
    IF ~translatedQuery.ok
    THEN [outcome |-> Thrown("TypeError", ""), lowered |-> <<>>]
    ELSE [outcome |-> Returned(selectStatement(columns(projection),
                                               buildSQL(translatedQuery.nodes))),
          lowered |-> translatedQuery.nodes]

\* translate(query: string) after its validation
translateParsed(parsed) ==
    IF ~parsed.ok
    THEN [outcome |-> Thrown("SyntaxError", ""), lowered |-> <<>>]
    ELSE buildStatement(parsed.projection, translateQuery(parsed.operators))

\* translate(query: string): what the call returns or throws, and the
\* predicate sequence it lowered the query to
translate(query) ==
    IF ~hasFindMethod(query)
    THEN [outcome |-> Thrown("Error", OnlyFindMessage), lowered |-> <<>>]
    ELSE translateParsed(parseMongoQuery(query))

\* translate(mongoQuery: MongoQuery), the revision that takes the query
\* object: no projection
translateObject(mongoQuery) == buildStatement(Undefined, translateQuery(mongoQuery))

----------------------------------------------------------------------------
(* The calls: the arguments translate is applied to *)

MaxFilterKeys == 3

MaxSubqueries == 2

MaxKeys == 3

\* the sequences of 1..n distinct elements of S
DistinctSeqs(S, n) ==
    UNION {{s \in [1..m -> S] : \A i, j \in 1..m : i # j => s[i] # s[j]} : m \in 1..n}

\* the object an object literal with these properties, in this order, evaluates to
RECURSIVE ObjFromPairs(_)
ObjFromPairs(ps) ==
    IF ps = <<>> THEN <<>>
    ELSE ObjSet(ObjFromPairs(SubSeq(ps, 1, Len(ps) - 1)), ps[Len(ps)].k, ps[Len(ps)].v)

Prefixes == {<<"d","b",".","u","s","e","r">>,
             <<"d","b",".","c","o","l","l","e","c","t","i","o","n">>}

Methods == {FindCall,
            <<".","f","i","n","d","O","n","e","(">>,
            <<".","i","n","s","e","r","t","O","n","e","(">>,
            <<".","u","p","d","a","t","e","O","n","e","(">>}

Terminators == {<<")", ";">>, <<")">>}

\* the query literals: text is the literal as written, keys its outer keys in
\* the order written when every one of them has a scalar value, else <<>>
QueryLiterals == {
    \* {name: 'john'}
    [text |-> <<"{","n","a","m","e",":"," ","'","j","o","h","n","'","}">>,
     keys |-> <<<<"n","a","m","e">>>>],
    \* { _id: 23113, name: "john", age: 1 }
    [text |-> <<"{"," ","_","i","d",":"," ","2","3","1","1","3",","," ","n",
              "a","m","e",":"," ","\"","j","o","h","n","\"",","," ","a","g",
              "e",":"," ","1"," ","}">>,
     keys |-> <<<<"_","i","d">>, <<"n","a","m","e">>, <<"a","g","e">>>>],
    \* { age: { $gte: 21 }}
    [text |-> <<"{"," ","a","g","e",":"," ","{"," ","$","g","t","e",":"," ",
              "2","1"," ","}","}">>,
     keys |-> <<>>],
    \* { age: { $lt: 21 }}
    [text |-> <<"{"," ","a","g","e",":"," ","{"," ","$","l","t",":"," ","2",
              "1"," ","}","}">>,
     keys |-> <<>>],
    \* { $or: [{ name: "john" }, { name: "alice" }] }
    [text |-> <<"{"," ","$","o","r",":"," ","[","{"," ","n","a","m","e",":",
              " ","\"","j","o","h","n","\""," ","}",","," ","{"," ","n","a",
              "m","e",":"," ","\"","a","l","i","c","e","\""," ","}","]"," ",
              "}">>,
     keys |-> <<>>],
    \* { $and: [{ name: "john" }, { age: { $gte: 21 } }] }
    [text |-> <<"{"," ","$","a","n","d",":"," ","[","{"," ","n","a","m","e",
              ":"," ","\"","j","o","h","n","\""," ","}",","," ","{"," ","a",
              "g","e",":"," ","{"," ","$","g","t","e",":"," ","2","1"," ",
              "}"," ","}","]"," ","}">>,
     keys |-> <<>>],
    \* { name: { $ne: "john" } }
    [text |-> <<"{"," ","n","a","m","e",":"," ","{"," ","$","n","e",":"," ",
              "\"","j","o","h","n","\""," ","}"," ","}">>,
     keys |-> <<>>],
    \* { name: { $in: ['john', 'peter', 'andrew'] } }
    [text |-> <<"{"," ","n","a","m","e",":"," ","{"," ","$","i","n",":"," ",
              "[","'","j","o","h","n","'",","," ","'","p","e","t","e","r",
              "'",","," ","'","a","n","d","r","e","w","'","]"," ","}"," ",
              "}">>,
     keys |-> <<>>],
    \* { name: 'john' }
    [text |-> <<"{"," ","n","a","m","e",":"," ","'","j","o","h","n","'"," ",
              "}">>,
     keys |-> <<<<"n","a","m","e">>>>],
    \* { _id: 23113 }
    [text |-> <<"{"," ","_","i","d",":"," ","2","3","1","1","3"," ","}">>,
     keys |-> <<<<"_","i","d">>>>],
    \* { a: 1, b: 2 }
    [text |-> <<"{"," ","a",":"," ","1",","," ","b",":"," ","2"," ","}">>,
     keys |-> <<<<"a">>, <<"b">>>>],
    \* { b: 1, 1: 2 }
    [text |-> <<"{"," ","b",":"," ","1",","," ","1",":"," ","2"," ","}">>,
     keys |-> <<<<"b">>, <<"1">>>>],
    \* { name: 'x', 10: 1, 9: 2 }
    [text |-> <<"{"," ","n","a","m","e",":"," ","'","x","'",","," ","1","0",
              ":"," ","1",","," ","9",":"," ","2"," ","}">>,
     keys |-> <<<<"n","a","m","e">>, <<"1","0">>, <<"9">>>>],
    \* { a: { $regex: 'x' } }
    [text |-> <<"{"," ","a",":"," ","{"," ","$","r","e","g","e","x",":"," ",
              "'","x","'"," ","}"," ","}">>,
     keys |-> <<>>],
    \* {a:1}
    [text |-> <<"{","a",":","1","}">>,
     keys |-> <<<<"a">>>>],
    \* { age: { $gte: 21, $lt: 65 } }
    [text |-> <<"{"," ","a","g","e",":"," ","{"," ","$","g","t","e",":"," ",
              "2","1",","," ","$","l","t",":"," ","6","5"," ","}"," ","}">>,
     keys |-> <<>>],
    \* { name: '' }
    [text |-> <<"{"," ","n","a","m","e",":"," ","'","'"," ","}">>,
     keys |-> <<<<"n","a","m","e">>>>] }

\* the projection literals with the separator before them, as written, and
\* their field names in the order written; the first one is no projection
ProjectionLiterals == {
    \* (none)
    [text |-> <<>>,
     fields |-> <<>>],
    \* , { name: 1, _id: 1 }
    [text |-> <<","," ","{"," ","n","a","m","e",":"," ","1",","," ","_","i",
              "d",":"," ","1"," ","}">>,
     fields |-> <<<<"n","a","m","e">>, <<"_","i","d">>>>],
    \* , { name: 1, age: 1 }
    [text |-> <<","," ","{"," ","n","a","m","e",":"," ","1",","," ","a","g",
              "e",":"," ","1"," ","}">>,
     fields |-> <<<<"n","a","m","e">>, <<"a","g","e">>>>],
    \* ,{b:1}
    [text |-> <<",","{","b",":","1","}">>,
     fields |-> <<<<"b">>>>] }

\* a call written as prefix, method, query literal, projection literal and
\* terminator
CallInputs ==
    {[form |-> "text", shape |-> "call",
      text |-> p \o m \o q.text \o pr.text \o e,
      prefix |-> p, method |-> m, query |-> q, projection |-> pr, terminator |-> e] :
        p \in Prefixes, m \in Methods, q \in QueryLiterals,
        pr \in ProjectionLiterals, e \in Terminators}

KeyPool == {<<"a">>, <<"b">>, <<"1">>, <<"1","0">>, <<"9">>, <<"0","1">>}

\* db.user.find({k1:1,k2:2,...}); for the keys ks
KeysCall(ks) ==
    <<"d","b",".","u","s","e","r">> \o FindCall \o <<"{">>
    \o join([i \in DOMAIN ks |-> ks[i] \o <<":">> \o NatChars(i)], <<",">>)
    \o <<"}", ")", ";">>

\* a find call whose query literal has the keys ks, in this order, with the
\* values 1, 2, ...
KeysInputs ==
    {[form |-> "text", shape |-> "keys", text |-> KeysCall(ks), keys |-> ks] :
        ks \in DistinctSeqs(KeyPool, MaxKeys)}

Fields == {<<"f">>, <<"n","a","m","e">>, <<"_","i","d">>}

John == StrV(<<"j","o","h","n">>)

Peter == StrV(<<"p","e","t","e","r">>)

ScalarValues ==
    {John, StrV(<<"2","1">>), StrV(<<"1","e","3">>), StrV(<<>>), StrV(<<" ">>),
     Num(21), Num(0), Num(-5), Bool(TRUE), Bool(FALSE), Infinity, NaN}

ArrayValues == {Arr(<<>>), Arr(<<John, Peter>>), Arr(<<Num(1), Num(2), Num(3)>>)}

Values == ScalarValues \cup ArrayValues \cup {Null}

ComparisonKeys == {OpEq, OpNe, OpGt, OpGte, OpLt, OpLte, OpIn}

ConnectiveKeys == {OpOr, OpAnd}

OpRegex == <<"$","r","e","g","e","x">>

OpExists == <<"$","e","x","i","s","t","s">>

OpNor == <<"$","n","o","r">>

\* the query object {field: value}
ScalarInputs ==
    {[form |-> "object", shape |-> "scalar", field |-> f, value |-> v,
      query |-> Obj(<<Prop(f, v)>>)] :
        f \in Fields, v \in Values}

\* the query object {field: {operator: value}}
ComparisonInputs ==
    {[form |-> "object", shape |-> "comparison", field |-> f, operator |-> k,
      value |-> v, query |-> Obj(<<Prop(f, Obj(<<Prop(k, v)>>))>>)] :
        f \in Fields, k \in ComparisonKeys \cup {OpRegex, OpExists}, v \in Values}

FilterKeyPool == {OpGte, OpLt, OpNe, OpRegex, <<"x">>, <<"1">>}

\* the query object {field: {k1: 1, k2: 2, ...}}, filter being the inner object
FilterInputs ==
    {[form |-> "object", shape |-> "filter", field |-> f,
      filter |-> Obj(ObjFromPairs([i \in DOMAIN ks |-> Prop(ks[i], Num(i))])),
      query |-> Obj(<<Prop(f, Obj(ObjFromPairs([i \in DOMAIN ks |-> Prop(ks[i], Num(i))])))>>)] :
        f \in Fields, ks \in DistinctSeqs(FilterKeyPool, MaxFilterKeys)}

SubqueryPool ==
    {Obj(<<Prop(<<"a">>, Num(1))>>),
     Obj(<<Prop(<<"a">>, Num(2))>>),
     Obj(<<Prop(<<"n","a","m","e">>, John)>>),
     Obj(<<Prop(<<"b">>, Obj(<<Prop(OpGte, Num(2))>>))>>)}

\* the query object {connective: [q1, ..., qn]}, or, nested,
\* {x: {connective: [q1, ..., qn]}}
ConnectiveInputs ==
    {[form |-> "object", shape |-> "connective", connective |-> c,
      subqueries |-> qs, nested |-> n,
      query |-> IF n THEN Obj(<<Prop(<<"x">>, Obj(<<Prop(c, Arr(qs))>>))>>)
                ELSE Obj(<<Prop(c, Arr(qs))>>)] :
        c \in ConnectiveKeys \cup {OpNor},
        qs \in UNION {[1..m -> SubqueryPool] : m \in 1..MaxSubqueries},
        n \in BOOLEAN}

Pending == [kind |-> "pending", sql |-> "", error |-> "", message |-> ""]

----------------------------------------------------------------------------
(* The state machine: one call of translate on one argument *)

Init ==
    /\ \/ input \in CallInputs
       \/ input \in KeysInputs
       \/ input \in ScalarInputs
       \/ input \in ComparisonInputs
       \/ input \in FilterInputs
       \/ input \in ConnectiveInputs
    /\ lowered = <<>>
    /\ outcome = Pending

\* the call ends with result r
Finish(r) ==
    /\ outcome' = r.outcome
    /\ lowered' = r.lowered
    /\ UNCHANGED input

\* MongoToSQLTranslator.translate(query: string)
TranslateText ==
    /\ outcome = Pending
    /\ input.form = "text"
    /\ Finish(translate(input.text))

\* MongoToSQLTranslator.translate(mongoQuery: MongoQuery)
TranslateObject ==
    /\ outcome = Pending
    /\ input.form = "object"
    /\ Finish(translateObject(input.query))

Next == TranslateText \/ TranslateObject

Spec == Init /\ [][Next]_vars

----------------------------------------------------------------------------
(* The claims *)

Done == outcome.kind # "pending"

\* the statement a call returned, as one string
Statement(cols, where) == "SELECT " \o cols \o " FROM user WHERE " \o where \o ";"

ReturnedStatement(cols, where) ==
    outcome = [kind |-> "returned", sql |-> Statement(cols, where),
               error |-> "", message |-> ""]

\* the fixed table of SQL operators of the comparison keywords
SqlSymbol(op) ==
    CASE op = OpEq -> "="
      [] op = OpNe -> "!="
      [] op = OpGt -> ">"
      [] op = OpGte -> ">="
      [] op = OpLt -> "<"
      [] op = OpLte -> "<="
      [] op = OpIn -> "IN"

\* the elements of an array, each in single quotes, separated by ", "
RECURSIVE QuotedElements(_)
QuotedElements(es) ==
    IF es = <<>> THEN ""
    ELSE "'" \o Str(JsToString(Head(es))) \o "'"
         \o (IF Len(es) > 1 THEN ", " ELSE "") \o QuotedElements(Tail(es))

QuotedList(a) == "(" \o QuotedElements(a.v) \o ")"

\* the texts separated by sep, as one string
RECURSIVE Joined(_, _)
Joined(parts, sep) ==
    IF parts = <<>> THEN ""
    ELSE Str(Head(parts)) \o (IF Len(parts) > 1 THEN sep ELSE "")
         \o Joined(Tail(parts), sep)

IsFindCall(x) ==
    /\ x.form = "text"
    /\ x.shape = "call"
    /\ x.method = FindCall
    /\ x.terminator = <<")", ";">>

\* the text has ".find(" somewhere
ContainsFindCall(text) ==
    \E i \in 1..(Len(text) - Len(FindCall) + 1) :
        SubSeq(text, i, i + Len(FindCall) - 1) = FindCall

\* C1: a text without the marker .find( makes translate throw the error whose
\* message says that only the .find method is supported; no SQL is returned.
C1_UnsupportedMethodRejected ==
    (Done /\ input.form = "text" /\ ~ContainsFindCall(input.text))
        => outcome = Thrown("Error", OnlyFindMessage)

\* what C2 says a connective of these subqueries renders to
ConnectiveWhere(c, qs) ==
    "(" \o Joined([i \in DOMAIN qs |->
                      <<"(">> \o buildSQL(translateQuery(qs[i]).nodes) \o <<")">>],
                  IF c = OpOr THEN " OR " ELSE " AND ")
    \o ")"

\* C2: an outer-level {$or: [q1..qn]} or {$and: [q1..qn]} renders each qi in
\* parentheses, joined in order by " OR " or " AND ", the whole in one more
\* pair of parentheses.
C2_OuterConnectiveRendered ==
    (Done /\ input.form = "object" /\ input.shape = "connective"
          /\ ~input.nested /\ input.connective \in ConnectiveKeys)
        => ReturnedStatement("*", ConnectiveWhere(input.connective, input.subqueries))

\* the calls of the test suite that translate as the suite expects
TestedCalls ==
    { <<"db.user.find({name: 'john'});",
        "SELECT * FROM user WHERE name = 'john';">>,
      <<"db.user.find({ _id: 23113, name: \"john\", age: 1 });",
        "SELECT * FROM user WHERE _id = 23113 AND name = 'john' AND age = 1;">>,
      <<"db.user.find({ age: { $gte: 21 }}, { name: 1, _id: 1 });",
        "SELECT name, _id FROM user WHERE age >= 21;">>,
      <<"db.user.find({ age: { $lt: 21 }}, { name: 1, _id: 1 });",
        "SELECT name, _id FROM user WHERE age < 21;">>,
      <<"db.user.find({ name: { $ne: \"john\" } });",
        "SELECT * FROM user WHERE name != 'john';">>,
      <<"db.user.find({ name: { $in: ['john', 'peter', 'andrew'] } });",
        "SELECT * FROM user WHERE name IN ('john', 'peter', 'andrew');">> }

IsScalar(v) == v.t \in {"str", "num", "inf", "nan", "bool"}

\* C3: {f: v} with a scalar v (a string, a number or a boolean) gives the one
\* predicate f = <formatted v>; {f: {$op: v}} with $op one of $eq, $ne, $gt,
\* $gte, $lt, $lte, $in gives f S <formatted v>, S from the fixed table; with
\* $in and an array the value is the list of the elements in single quotes, in
\* order, in parentheses; the calls of the test suite give the statements the
\* suite expects.
C3_ComparisonsRendered ==
    /\ (Done /\ input.shape = "scalar" /\ IsScalar(input.value))
          => /\ lowered = <<SqlQuery(input.field, OpEq, input.value)>>
             /\ ReturnedStatement("*", Str(input.field) \o " = "
                                       \o Str(formatSQLValue(input.value)))
    /\ (Done /\ input.shape = "comparison" /\ input.operator \in ComparisonKeys)
          => /\ lowered = <<SqlQuery(input.field, input.operator, input.value)>>
             /\ ReturnedStatement("*", Str(input.field) \o " "
                                       \o SqlSymbol(input.operator) \o " "
                                       \o Str(formatSQLValue(input.value)))
    /\ (Done /\ input.shape = "comparison" /\ input.operator = OpIn
             /\ input.value.t = "arr")
          => ReturnedStatement("*", Str(input.field) \o " IN " \o QuotedList(input.value))
    /\ \A call \in TestedCalls :
          (Done /\ input.form = "text" /\ Str(input.text) = call[1])
             => outcome = [kind |-> "returned", sql |-> call[2],
                           error |-> "", message |-> ""]

C3_Witness ==
    /\ input.shape = "comparison"
    /\ input.field = <<"n","a","m","e">>
    /\ input.operator = OpIn
    /\ input.value = Arr(<<John, Peter>>)
    /\ outcome.sql = "SELECT * FROM user WHERE name IN ('john', 'peter');"

\* what the call of the query literal alone lowers the query to
QueryAlone(x) ==
    translate(x.prefix \o FindCall \o x.query.text \o <<")", ";">>)

\* C4: a find call with a query literal and a projection literal, each well
\* formed, selects the projection's field names, joined by ", " in the order
\* written, where the predicate is that of the query literal alone.
C4_QueryAndProjectionSeparated ==
    (Done /\ IsFindCall(input) /\ input.projection.fields # <<>>
          /\ QueryAlone(input).outcome.kind = "returned")
        => ReturnedStatement(Joined(input.projection.fields, ", "),
                             Str(buildSQL(QueryAlone(input).lowered)))

\* C5: a $-keyword outside $eq, $ne, $gt, $gte, $lt, $lte, $in, $and, $or, as
\* a field's comparison keyword or as an outer-level key, makes translate
\* throw UnsupportedOperatorError; no SQL is returned.
C5_UnknownOperatorRejected ==
    (Done /\ input.form = "object"
          /\ \/ input.shape = "comparison" /\ input.operator \notin ComparisonKeys
             \/ input.shape = "connective" /\ ~input.nested
                  /\ input.connective \notin ConnectiveKeys)
        => (outcome.kind = "thrown" /\ outcome.error = "UnsupportedOperatorError")

\* C6: a find call that ends at its closing parenthesis gives what the same
\* call followed by ";" gives.
C6_SemicolonOptional ==
    (Done /\ input.form = "text" /\ input.shape = "call"
          /\ input.method = FindCall /\ input.terminator = <<")">>)
        => outcome = translate(input.text \o <<";">>).outcome

\* the string form of a scalar coerces to a finite number; not so for an empty
\* or white-space string, a boolean, Infinity
CoercesToFinite(v) ==
    LET s == trim(JsToString(v))
        u == IF At(s, 1) \in {"+", "-"} THEN Tail(s) ELSE s
    IN  /\ s # <<>>
        /\ ~StringIsNaN(s)
        /\ u # JsToString(Infinity)

\* the rendering of a value that C7 states
ClaimedFormat(v) ==
    IF v.t = "arr" THEN QuotedList(v)
    ELSE IF CoercesToFinite(v) THEN Str(JsToString(v))
    ELSE "'" \o Str(JsToString(v)) \o "'"

\* C7: an array renders as the list of its elements in single quotes; a
\* scalar renders unquoted exactly when its string form coerces to a finite
\* number, and in single quotes otherwise (the empty string, white space,
\* booleans, Infinity).
C7_ValueFormatting ==
    /\ (Done /\ input.shape = "scalar" /\ IsScalar(input.value))
          => ReturnedStatement("*", Str(input.field) \o " = "
                                    \o ClaimedFormat(input.value))
    /\ (Done /\ input.shape = "comparison" /\ input.operator \in ComparisonKeys
             /\ input.value.t # "null")
          => ReturnedStatement("*", Str(input.field) \o " "
                                    \o SqlSymbol(input.operator) \o " "
                                    \o ClaimedFormat(input.value))

\* the keys of the query literal of a find call, in the order written, when
\* each has a scalar value; <<>> for any other argument
LiteralKeys(x) ==
    IF x.form = "text" /\ x.shape = "keys" THEN x.keys
    ELSE IF IsFindCall(x) /\ x.projection.fields = <<>> THEN x.query.keys
    ELSE <<>>

\* C9: the predicates of a query with the keys k1..kn are lowered, and joined
\* with " AND ", in the order the keys are written, digit-only keys included.
C9_KeyOrderPreserved ==
    (Done /\ LiteralKeys(input) # <<>>)
        => /\ outcome.kind = "returned"
           /\ [i \in DOMAIN lowered |-> lowered[i].field] = LiteralKeys(input)

\* the properties of the filter whose key starts with "$", in key order
OperatorProps(filter) == SelectSeq(filter.v, LAMBDA p : At(p.k, 1) = "$")

\* C10: {f: filter}, filter an object with k >= 1 keys that start with "$",
\* none a connective, is lowered to exactly k predicates, one per such key in
\* the object's key order, all on field f; the other keys of filter give no
\* predicate; {f: {$gte: 1, $lt: 2}} renders f >= 1 AND f < 2, and the call
\* with { age: { $gte: 21, $lt: 65 } } renders age >= 21 AND age < 65.
C10_OnePredicatePerOperatorKey ==
    /\ (Done /\ input.shape = "filter")
          => /\ outcome.kind = "returned"
             /\ Len(lowered) = Len(OperatorProps(input.filter))
             /\ \A i \in DOMAIN lowered :
                   lowered[i] = SqlQuery(input.field,
                                         OperatorProps(input.filter)[i].k,
                                         OperatorProps(input.filter)[i].v)
    /\ (Done /\ input.shape = "filter" /\ input.field = <<"f">>
             /\ ForInKeys(input.filter) = <<OpGte, OpLt>>)
          => ReturnedStatement("*", "f >= 1 AND f < 2")
    /\ (Done /\ input.form = "text"
             /\ Str(input.text) = "db.user.find({ age: { $gte: 21, $lt: 65 } });")
          => ReturnedStatement("*", "age >= 21 AND age < 65")

C10_Witness ==
    /\ input.shape = "filter"
    /\ input.field = <<"f">>
    /\ ForInKeys(input.filter) = <<OpGte, <<"x">>, OpLt>>
    /\ Len(lowered) = 2
    /\ outcome.sql = "SELECT * FROM user WHERE f >= 1 AND f < 3;"

====
